---- MODULE Spec2Model ----
(***************************************************************************)
(* Resource allocation engine of rsproject (crate `logic`):                *)
(* TimeWindow, ProjectCalendar, Resource availability and the              *)
(* LocalResourcePool with its capacity check.                              *)
(*                                                                         *)
(* Instants are integer ticks 0..MaxT, TicksPerDay ticks to a UTC day;     *)
(* date 0 falls on weekday FirstWeekday, weekdays being numbered           *)
(* 0 = Monday .. 6 = Sunday.  Engagement rates are f64 in the code; the    *)
(* model uses the non-zero multiples of 1/2 between -NegRates/2 and        *)
(* MaxRate/2, which f64 represents and adds exactly, and writes them as    *)
(* numbers of halves (FullRate = 1.0).  Allocation ids are Uuid::new_v4()  *)
(* in the code; the model draws them from a counter, nextId, so that an id *)
(* is never handed out twice.  The variable last records the last call and *)
(* its result.                                                             *)
(***************************************************************************)
EXTENDS Integers, Sequences, FiniteSets, TLC

VARIABLES resources, allocations, nextId, last

vars == <<resources, allocations, nextId, last>>

----------------------------------------------------------------------------
(* Bounds *)

MaxRes == 2
MaxT == 2
TicksPerDay == 2
FirstWeekday == 4
MaxIds == 2
NegRates == 1
MaxRate == 3
MaxPeriods == 1
MaxTasks == 2
MaxProjects == 2
TwDays == 3
CalDays == 4
MaxBaseRate == 3
MaxHops == 3
MaxUuids == 4

(* 1.0, the full capacity of a resource, in halves *)
FullRate == 2

ResourceIds == 1..MaxRes
AllocationIds == 1..MaxIds
TaskIds == 1..MaxTasks
ProjectIds == 1..MaxProjects
Instants == 0..MaxT
Dates == 0..(MaxT \div TicksPerDay)
Rates == {r \in (0 - NegRates)..MaxRate : r # 0}
ExceptionTypes == {"Vacation", "Overtime"}

----------------------------------------------------------------------------
(* TimeWindow *)

Windows == {w \in [date_start : Instants, date_end : Instants] :
              w.date_start < w.date_end}

(* DateTime<Utc> has a last value, MAX_UTC, the last instant of a day; the *)
(* TimeWindow methods are examined over a range of TwDays whole days that *)
(* ends there.                                                            *)
LastMoment == TwDays * TicksPerDay - 1

Moments == 0..LastMoment

(* The windows a struct literal can hold, the fields being public *)
TwWindows == [date_start : Moments, date_end : Moments]

(* Equal endpoints let through *)
TimeWindowNewAllowsEmpty(date_start, date_end) ==
    IF date_start > date_end
    THEN [ok |-> FALSE, error |-> "InvalidRange"]
    ELSE [ok |-> TRUE, value |-> [date_start |-> date_start, date_end |-> date_end]]

TimeWindowNew(date_start, date_end) ==
    IF date_start >= date_end
    THEN [ok |-> FALSE, error |-> "InvalidRange"]
    ELSE [ok |-> TRUE, value |-> [date_start |-> date_start, date_end |-> date_end]]

(* The end of the window counted in *)
ContainsClosed(w, dt) == dt >= w.date_start /\ dt <= w.date_end

(* Windows that touch taken to overlap *)
OverlapsClosed(a, b) == a.date_start <= b.date_end /\ a.date_end >= b.date_start

(* The earlier design's test, one window holding the other *)
OverlapsInclude(a, b) == b.date_start >= a.date_start /\ b.date_end <= a.date_end

Overlaps(a, b) == a.date_start < b.date_end /\ a.date_end > b.date_start

Contains(w, dt) == dt >= w.date_start /\ dt < w.date_end

Min(x, y) == IF x <= y THEN x ELSE y

(* The loop of split_by_days.  current + Duration::days(1) panics when    *)
(* the sum is past the last DateTime, and unwrap() panics on a failed     *)
(* TimeWindow::new.                                                       *)
RECURSIVE SplitFrom(_, _, _)
SplitFrom(current, window, result) ==
    IF current < window.date_end
    THEN IF current + TicksPerDay > LastMoment
         THEN [panicked |-> TRUE, value |-> result]
         ELSE LET next_day == ((current + TicksPerDay) \div TicksPerDay) * TicksPerDay
                  day_end == Min(next_day, window.date_end)
                  segment == TimeWindowNew(current, day_end)
              IN IF ~ segment.ok
                 THEN [panicked |-> TRUE, value |-> result]
                 ELSE SplitFrom(next_day, window, Append(result, segment.value))
    ELSE [panicked |-> FALSE, value |-> result]

SplitByDays(window) == SplitFrom(window.date_start, window, << >>)

----------------------------------------------------------------------------
(* ProjectCalendar *)

DateNaive(t) == t \div TicksPerDay

Weekday(d) == (d + FirstWeekday) % 7

(* Saturday made a working day *)
DefaultCalendarSixDays ==
    [working_days |-> {0, 1, 2, 3, 4, 5}, holidays |-> {}, working_hours_per_day |-> 8]

DefaultCalendar ==
    [working_days |-> {0, 1, 2, 3, 4}, holidays |-> {}, working_hours_per_day |-> 8]

(* A holiday on a date that is no working day changes nothing, so the     *)
(* calendars handed to allocate carry holidays on working weekdays only.  *)
Calendars ==
    {[DefaultCalendar EXCEPT !.holidays = h] :
        h \in SUBSET {d \in Dates : Weekday(d) \in DefaultCalendar.working_days}}

IsWorkingDay(cal, d) == Weekday(d) \in cal.working_days /\ d \notin cal.holidays

RECURSIVE CountFrom(_, _, _)
CountFrom(cal, current, end) ==
    IF current <= end
    THEN (IF IsWorkingDay(cal, current) THEN 1 ELSE 0) + CountFrom(cal, current + 1, end)
    ELSE 0

(* The scan stopping before the end date *)
CountWorkingDaysHalfOpen(cal, window) ==
    CountFrom(cal, DateNaive(window.date_start), DateNaive(window.date_end) - 1)

CountWorkingDays(cal, window) ==
    CountFrom(cal, DateNaive(window.date_start), DateNaive(window.date_end))

----------------------------------------------------------------------------
(* Resource *)

ExceptionPeriods ==
    [period : {w \in Windows : w.date_start = MaxT - 1}, exception_type : ExceptionTypes]

NewResource(id) == [id |-> id, unavailable_periods |-> << >>]

IsAvailable(resource, period, cal) ==
    IF CountWorkingDays(cal, period) = 0
    THEN FALSE
    ELSE ~ \E i \in 1..Len(resource.unavailable_periods) :
             Overlaps(resource.unavailable_periods[i].period, period)

----------------------------------------------------------------------------
(* AllocationRequest, ResourceAllocation *)

(* The pool reads neither task_id nor project_id: the requests of Spec     *)
(* are those of task 1 of project 1, with every rate and window; those of *)
(* SpecTasks come from every task of every project.                       *)
Requests ==
    [resource_id : ResourceIds, task_id : {1}, project_id : {1},
     engagement_rate : Rates, time_window : Windows]

TaskRequests ==
    [resource_id : ResourceIds, task_id : TaskIds, project_id : ProjectIds,
     engagement_rate : {1}, time_window : {w \in Windows : w.date_start = 0}]

(* The task and the project taking each other's place *)
ResourceAllocationNewSwapped(id, request) ==
    [id |-> id,
     resource_id |-> request.resource_id,
     task_id |-> request.project_id,
     project_id |-> request.task_id,
     time_window |-> request.time_window,
     engagement_rate |-> request.engagement_rate]

ResourceAllocationNew(id, request) ==
    [id |-> id,
     resource_id |-> request.resource_id,
     task_id |-> request.task_id,
     project_id |-> request.project_id,
     time_window |-> request.time_window,
     engagement_rate |-> request.engagement_rate]

----------------------------------------------------------------------------
(* LocalResourcePool *)

(* The allocations of every resource returned *)
GetResourceExistingAllocationsUnfiltered(allocs, resource_id) ==
    DOMAIN allocs

GetResourceExistingAllocations(allocs, resource_id) ==
    {id \in DOMAIN allocs : allocs[id].resource_id = resource_id}

RECURSIVE SumRates(_, _)
SumRates(allocs, ids) ==
    IF ids = {} THEN 0
    ELSE LET id == CHOOSE x \in ids : TRUE
         IN allocs[id].engagement_rate + SumRates(allocs, ids \ {id})

(* The comparison made strict *)
CheckCorrectTimewindowStrict(allocs, allocations_list, request) ==
    LET overlapping_allocations ==
            {id \in allocations_list : Overlaps(allocs[id].time_window, request.time_window)}
    IN SumRates(allocs, overlapping_allocations) + request.engagement_rate < FullRate

CheckCorrectTimewindow(allocs, allocations_list, request) ==
    LET overlapping_allocations ==
            {id \in allocations_list : Overlaps(allocs[id].time_window, request.time_window)}
        total_engagement == SumRates(allocs, overlapping_allocations)
    IN total_engagement + request.engagement_rate <= FullRate

(* The capacity check made before the availability check *)
CheckAllocationCapacityFirst(res, allocs, request, cal) ==
    IF request.resource_id \notin DOMAIN res
    THEN "ResourceNotFound"
    ELSE LET existing == GetResourceExistingAllocations(allocs, request.resource_id)
         IN IF existing # {} /\ ~ CheckCorrectTimewindow(allocs, existing, request)
            THEN "OverCommitted"
            ELSE IF ~ IsAvailable(res[request.resource_id], request.time_window, cal)
            THEN "ResourceUnavailable"
            ELSE "Ok"

(* The capacity check made also when the resource has no allocation *)
CheckAllocationNoShortcut(res, allocs, request, cal) ==
    IF request.resource_id \notin DOMAIN res
    THEN "ResourceNotFound"
    ELSE IF ~ IsAvailable(res[request.resource_id], request.time_window, cal)
    THEN "ResourceUnavailable"
    ELSE LET existing == GetResourceExistingAllocations(allocs, request.resource_id)
         IN IF ~ CheckCorrectTimewindow(allocs, existing, request)
            THEN "OverCommitted"
            ELSE "Ok"

CheckAllocationCorrect(res, allocs, request, cal) ==
    IF request.resource_id \notin DOMAIN res
    THEN "ResourceNotFound"
    ELSE IF ~ IsAvailable(res[request.resource_id], request.time_window, cal)
    THEN "ResourceUnavailable"
    ELSE LET existing == GetResourceExistingAllocations(allocs, request.resource_id)
         IN IF existing = {}
            THEN "Ok"
            ELSE IF ~ CheckCorrectTimewindow(allocs, existing, request)
            THEN "OverCommitted"
            ELSE "Ok"

Remove(f, k) == [x \in DOMAIN f \ {k} |-> f[x]]

(* The allocation inserted before the capacity check has passed *)
AllocatePartial(request, cal) ==
    /\ \E outcome \in {CheckAllocationCorrect(resources, allocations, request, cal)} :
          /\ outcome \in {"Ok", "OverCommitted"} => nextId <= MaxIds
          /\ IF outcome \in {"Ok", "OverCommitted"}
             THEN /\ allocations' = allocations @@ (nextId :> ResourceAllocationNew(nextId, request))
                  /\ nextId' = nextId + 1
             ELSE UNCHANGED <<allocations, nextId>>
          /\ last' = [op |-> "allocate", resource_id |-> request.resource_id,
                      time_window |-> request.time_window, outcome |-> outcome]
    /\ UNCHANGED resources

(* The allocation stored under the smallest id that is free *)
AllocateReusingId(request, cal) ==
    /\ \E outcome \in {CheckAllocationCorrect(resources, allocations, request, cal)} :
          /\ outcome = "Ok" => nextId <= MaxIds
          /\ IF outcome = "Ok"
             THEN LET id == CHOOSE x \in 1..nextId :
                                /\ x \notin DOMAIN allocations
                                /\ \A y \in 1..(x - 1) : y \in DOMAIN allocations
                  IN /\ allocations' = allocations @@ (id :> ResourceAllocationNew(id, request))
                     /\ nextId' = nextId + 1
             ELSE UNCHANGED <<allocations, nextId>>
          /\ last' = [op |-> "allocate", resource_id |-> request.resource_id,
                      time_window |-> request.time_window, outcome |-> outcome]
    /\ UNCHANGED resources

Allocate(request, cal) ==
    /\ \E outcome \in {CheckAllocationCorrect(resources, allocations, request, cal)} :
          /\ outcome = "Ok" => nextId <= MaxIds
          /\ IF outcome = "Ok"
             THEN /\ allocations' = allocations @@ (nextId :> ResourceAllocationNew(nextId, request))
                  /\ nextId' = nextId + 1
             ELSE UNCHANGED <<allocations, nextId>>
          /\ last' = [op |-> "allocate", resource_id |-> request.resource_id,
                      time_window |-> request.time_window, outcome |-> outcome]
    /\ UNCHANGED resources

(* The removal taking every allocation of the same resource with it *)
DeallocateCascade(allocation_id) ==
    /\ IF allocation_id \in DOMAIN allocations
       THEN /\ allocations' =
                  [x \in {y \in DOMAIN allocations :
                            allocations[y].resource_id # allocations[allocation_id].resource_id}
                     |-> allocations[x]]
            /\ last' = [op |-> "deallocate", allocation_id |-> allocation_id, outcome |-> "Ok",
                        removed |-> allocations[allocation_id]]
       ELSE /\ UNCHANGED allocations
            /\ last' = [op |-> "deallocate", allocation_id |-> allocation_id,
                        outcome |-> "AllocationNotFound"]
    /\ UNCHANGED <<resources, nextId>>

(* Success reported with the allocation left in the map *)
DeallocateNoRemove(allocation_id) ==
    /\ IF allocation_id \in DOMAIN allocations
       THEN /\ UNCHANGED allocations
            /\ last' = [op |-> "deallocate", allocation_id |-> allocation_id, outcome |-> "Ok",
                        removed |-> allocations[allocation_id]]
       ELSE /\ UNCHANGED allocations
            /\ last' = [op |-> "deallocate", allocation_id |-> allocation_id,
                        outcome |-> "AllocationNotFound"]
    /\ UNCHANGED <<resources, nextId>>

Deallocate(allocation_id) ==
    /\ IF allocation_id \in DOMAIN allocations
       THEN /\ allocations' = Remove(allocations, allocation_id)
            /\ last' = [op |-> "deallocate", allocation_id |-> allocation_id, outcome |-> "Ok",
                        removed |-> allocations[allocation_id]]
       ELSE /\ UNCHANGED allocations
            /\ last' = [op |-> "deallocate", allocation_id |-> allocation_id,
                        outcome |-> "AllocationNotFound"]
    /\ UNCHANGED <<resources, nextId>>

(* The resource stored only when its id is not in the pool *)
AddResourceKeepingStored(resource) ==
    /\ resources' = [id \in DOMAIN resources \cup {resource.id} |->
                        IF id \in DOMAIN resources THEN resources[id] ELSE resource]
    /\ last' = [op |-> "add_resource", resource_id |-> resource.id, outcome |-> "Ok"]
    /\ UNCHANGED <<allocations, nextId>>

AddResource(resource) ==
    /\ resources' = [id \in DOMAIN resources \cup {resource.id} |->
                        IF id = resource.id THEN resource ELSE resources[id]]
    /\ last' = [op |-> "add_resource", resource_id |-> resource.id, outcome |-> "Ok"]
    /\ UNCHANGED <<allocations, nextId>>

(* The removal made idempotent, as the calendar's holiday removal is *)
RemoveResourceIdempotent(id) ==
    /\ resources' = Remove(resources, id)
    /\ last' = [op |-> "remove_resource", resource_id |-> id, outcome |-> "Ok"]
    /\ UNCHANGED <<allocations, nextId>>

(* The removal deleting the allocations of the removed resource *)
RemoveResourceCascade(id) ==
    /\ IF id \in DOMAIN resources
       THEN /\ resources' = Remove(resources, id)
            /\ allocations' = [x \in {y \in DOMAIN allocations : allocations[y].resource_id # id}
                                 |-> allocations[x]]
            /\ last' = [op |-> "remove_resource", resource_id |-> id, outcome |-> "Ok"]
       ELSE /\ UNCHANGED <<resources, allocations>>
            /\ last' = [op |-> "remove_resource", resource_id |-> id,
                        outcome |-> "ResourceNotFound"]
    /\ UNCHANGED nextId

RemoveResource(id) ==
    /\ IF id \in DOMAIN resources
       THEN /\ resources' = Remove(resources, id)
            /\ last' = [op |-> "remove_resource", resource_id |-> id, outcome |-> "Ok"]
       ELSE /\ UNCHANGED resources
            /\ last' = [op |-> "remove_resource", resource_id |-> id,
                        outcome |-> "ResourceNotFound"]
    /\ UNCHANGED <<allocations, nextId>>

----------------------------------------------------------------------------
(* ResourceService *)

(* Only the allocations counted whose window holds the first instant *)
GetResourceUtilizationAtStart(allocs, resource_id) ==
    SumRates(allocs, {id \in GetResourceExistingAllocations(allocs, resource_id) :
                        Contains(allocs[id].time_window, 0)})

GetResourceUtilization(allocs, resource_id) ==
    SumRates(allocs, GetResourceExistingAllocations(allocs, resource_id))

(* The allocations of the resource that overlap the period taken out *)
AddUnavailablePeriodEvicting(resource_id, exception_period) ==
    /\ IF resource_id \in DOMAIN resources
       THEN /\ Len(resources[resource_id].unavailable_periods) < MaxPeriods
            /\ resources' = [resources EXCEPT ![resource_id].unavailable_periods =
                                Append(@, exception_period)]
            /\ allocations' =
                  [id \in {x \in DOMAIN allocations :
                             ~ (/\ allocations[x].resource_id = resource_id
                                /\ Overlaps(allocations[x].time_window,
                                            exception_period.period))}
                     |-> allocations[id]]
            /\ last' = [op |-> "add_unavailable_period", resource_id |-> resource_id,
                        outcome |-> "Ok"]
       ELSE /\ UNCHANGED <<resources, allocations>>
            /\ last' = [op |-> "add_unavailable_period", resource_id |-> resource_id,
                        outcome |-> "ResourceNotFound"]
    /\ UNCHANGED nextId

AddUnavailablePeriod(resource_id, exception_period) ==
    /\ IF resource_id \in DOMAIN resources
       THEN /\ Len(resources[resource_id].unavailable_periods) < MaxPeriods
            /\ resources' = [resources EXCEPT ![resource_id].unavailable_periods =
                                Append(@, exception_period)]
            /\ last' = [op |-> "add_unavailable_period", resource_id |-> resource_id,
                        outcome |-> "Ok"]
       ELSE /\ UNCHANGED resources
            /\ last' = [op |-> "add_unavailable_period", resource_id |-> resource_id,
                        outcome |-> "ResourceNotFound"]
    /\ UNCHANGED <<allocations, nextId>>

----------------------------------------------------------------------------
(* Specification *)

Init ==
    /\ resources = << >>
    /\ allocations = << >>
    /\ nextId = 1
    /\ last = [op |-> "new", outcome |-> "Ok"]

Next ==
    \/ \E request \in Requests, cal \in Calendars : Allocate(request, cal)
    \/ \E allocation_id \in AllocationIds : Deallocate(allocation_id)
    \/ \E id \in ResourceIds : AddResource(NewResource(id))
    \/ \E id \in ResourceIds : RemoveResource(id)
    \/ \E id \in ResourceIds, ep \in ExceptionPeriods : AddUnavailablePeriod(id, ep)

Spec == Init /\ [][Next]_vars

(* The call keeps its answer, the ids of the allocations returned, in    *)
(* last; the order of the Vec is that of the HashMap's iteration.         *)
CallGetResourceExistingAllocations(resource_id) ==
    /\ last' = [op |-> "get_resource_existing_allocations", resource_id |-> resource_id,
                result |-> GetResourceExistingAllocations(allocations, resource_id)]
    /\ UNCHANGED <<resources, allocations, nextId>>

(* The pool called for the tasks of several projects *)
NextTasks ==
    \/ \E request \in TaskRequests : Allocate(request, DefaultCalendar)
    \/ \E allocation_id \in AllocationIds : Deallocate(allocation_id)
    \/ \E id \in ResourceIds : AddResource(NewResource(id))
    \/ \E id \in ResourceIds : RemoveResource(id)
    \/ \E id \in ResourceIds : CallGetResourceExistingAllocations(id)

SpecTasks == Init /\ [][NextTasks]_vars

(* The pool and the resources handed windows written as struct literals,  *)
(* which TimeWindow::new has not seen                                     *)
RawWindows == [date_start : Instants, date_end : Instants]

RawRequests ==
    [resource_id : ResourceIds, task_id : {1}, project_id : {1},
     engagement_rate : {1}, time_window : RawWindows]

RawExceptionPeriods ==
    [period : {w \in RawWindows : w.date_start = MaxT - 1}, exception_type : {"Vacation"}]

NextRaw ==
    \/ \E request \in RawRequests : Allocate(request, DefaultCalendar)
    \/ \E allocation_id \in AllocationIds : Deallocate(allocation_id)
    \/ \E id \in ResourceIds : AddResource(NewResource(id))
    \/ \E id \in ResourceIds, ep \in RawExceptionPeriods : AddUnavailablePeriod(id, ep)

SpecRaw == Init /\ [][NextRaw]_vars

----------------------------------------------------------------------------
(* One ProjectCalendar and the calls made on it, over CalDays dates that  *)
(* lie well inside the range of NaiveDate.  last holds the calendar next  *)
(* to the call and its result.                                            *)

CalDates == 0..(CalDays - 1)

CalWindows ==
    [date_start : 0..(CalDays * TicksPerDay - 1), date_end : 0..(CalDays * TicksPerDay - 1)]

WorkingHours == {6, 8}

ProjectCalendarNew(working_hours_per_day) ==
    [DefaultCalendar EXCEPT !.working_hours_per_day = working_hours_per_day]

(* The holiday taken out when it is there already *)
AddHolidayToggle(cal, date) ==
    [cal EXCEPT !.holidays = IF date \in @ THEN @ \ {date} ELSE @ \cup {date}]

AddHoliday(cal, date) == [cal EXCEPT !.holidays = @ \cup {date}]

RemoveHoliday(cal, date) == [cal EXCEPT !.holidays = @ \ {date}]

InitCalendar ==
    /\ resources = << >>
    /\ allocations = << >>
    /\ nextId = 1
    /\ last \in {[op |-> "ProjectCalendar::new", calendar |-> ProjectCalendarNew(h)] :
                    h \in WorkingHours}

CallAddHoliday(date) ==
    /\ last' = [op |-> "add_holiday", calendar |-> AddHoliday(last.calendar, date),
                date |-> date, outcome |-> "Ok"]
    /\ UNCHANGED <<resources, allocations, nextId>>

CallRemoveHoliday(date) ==
    /\ last' = [op |-> "remove_holiday", calendar |-> RemoveHoliday(last.calendar, date),
                date |-> date, outcome |-> "Ok"]
    /\ UNCHANGED <<resources, allocations, nextId>>

CallIsWorkingDay(date) ==
    /\ last' = [op |-> "is_working_day", calendar |-> last.calendar, date |-> date,
                result |-> IsWorkingDay(last.calendar, date)]
    /\ UNCHANGED <<resources, allocations, nextId>>

CallCountWorkingDays(window) ==
    /\ last' = [op |-> "count_working_days", calendar |-> last.calendar, window |-> window,
                result |-> CountWorkingDays(last.calendar, window)]
    /\ UNCHANGED <<resources, allocations, nextId>>

NextCalendar ==
    \/ \E date \in CalDates : CallAddHoliday(date)
    \/ \E date \in CalDates : CallRemoveHoliday(date)
    \/ \E date \in CalDates : CallIsWorkingDay(date)
    \/ \E window \in CalWindows : CallCountWorkingDays(window)

SpecCalendar == InitCalendar /\ [][NextCalendar]_vars

----------------------------------------------------------------------------
(* RateMeasure::convert.  A rate is f64 in the code; the model computes   *)
(* with exact fractions [n, d] in lowest terms, leaving the rounding of   *)
(* f64 out.  A rate is converted up to MaxHops times in a row; last holds *)
(* the measure and the rate the chain started from next to the current    *)
(* ones.                                                                  *)

RateMeasures == {"Daily", "Hourly", "Monthly"}

RECURSIVE Gcd(_, _)
Gcd(x, y) == IF y = 0 THEN x ELSE Gcd(y, x % y)

Fraction(n, d) == [n |-> n \div Gcd(n, d), d |-> d \div Gcd(n, d)]

Times(rate, k) == Fraction(rate.n * k, rate.d)

Over(rate, k) == Fraction(rate.n, rate.d * k)

Convert(self, to_measure, rate) ==
    CASE self = "Daily" ->
           (CASE to_measure = "Daily" -> rate
              [] to_measure = "Hourly" -> Over(rate, 8)
              [] to_measure = "Monthly" -> Times(rate, 22))
      [] self = "Hourly" ->
           (CASE to_measure = "Hourly" -> rate
              [] to_measure = "Daily" -> Times(rate, 8)
              [] to_measure = "Monthly" -> Times(rate, 22))
      [] self = "Monthly" ->
           (CASE to_measure = "Daily" -> Over(rate, 22)
              [] to_measure = "Hourly" -> Over(rate, 22 * 8)
              [] to_measure = "Monthly" -> rate)

InitRates ==
    /\ resources = << >>
    /\ allocations = << >>
    /\ nextId = 1
    /\ last \in {[op |-> "input", from_measure |-> m, from_rate |-> Fraction(r, 1),
                   measure |-> m, rate |-> Fraction(r, 1), hops |-> 0] :
                    m \in RateMeasures, r \in 1..MaxBaseRate}

CallConvert(to_measure) ==
    /\ last.hops < MaxHops
    /\ last' = [last EXCEPT !.op = "convert",
                            !.measure = to_measure,
                            !.rate = Convert(last.measure, to_measure, last.rate),
                            !.hops = @ + 1]
    /\ UNCHANGED <<resources, allocations, nextId>>

NextRates == \E to_measure \in RateMeasures : CallConvert(to_measure)

SpecRates == InitRates /\ [][NextRates]_vars

----------------------------------------------------------------------------
(* Resource::new and the pool that takes the resources it makes.  A rate  *)
(* is an f64: a number or NaN, and every comparison with NaN is false.    *)
(* The name of a resource is left out, no condition reads it; the id that *)
(* Uuid::new_v4 draws is the next of a counter.                           *)

NaN == [nan |-> TRUE, value |-> 0]

F64(value) == [nan |-> FALSE, value |-> value]

F64Rates == {F64(v) : v \in (0 - NegRates)..MaxBaseRate} \cup {NaN}

LeZero(rate) == ~ rate.nan /\ rate.value <= 0

GtZero(rate) == ~ rate.nan /\ rate.value > 0

ResourceNew(id, rate, measure) ==
    IF LeZero(rate)
    THEN [ok |-> FALSE, error |-> "Rate for Resource must be > 0"]
    ELSE [ok |-> TRUE, value |-> [id |-> id, rate |-> rate, rate_measure |-> measure]]

CallResourceNew(rate, measure) ==
    LET result == ResourceNew(nextId, rate, measure)
    IN /\ result.ok => nextId <= MaxRes
       /\ last' = [op |-> "Resource::new", rate |-> rate, result |-> result]
       /\ nextId' = IF result.ok THEN nextId + 1 ELSE nextId
       /\ UNCHANGED <<resources, allocations>>

AddCreatedResource ==
    /\ last.op = "Resource::new"
    /\ last.result.ok
    /\ AddResource(last.result.value)

NextResource ==
    \/ \E rate \in F64Rates, measure \in RateMeasures : CallResourceNew(rate, measure)
    \/ AddCreatedResource
    \/ \E id \in ResourceIds : RemoveResource(id)

SpecResource == Init /\ [][NextResource]_vars

----------------------------------------------------------------------------
(* Project, Task, SingleProjectContainer and TaskService::create_task.    *)
(* The container is carried in last, next to the last call and what it    *)
(* returned; its resource pool is the pool of the module's variables.     *)
(* An Option is a sequence of length 0 or 1.  The ids Uuid::new_v4 draws  *)
(* for projects and tasks are the values of the counter nextId.  Names    *)
(* and descriptions are left out, no condition reads them.                *)

Uuids == 1..MaxUuids

ProjectNew(id, start, end) ==
    [id |-> id, date_start |-> start, date_end |-> end, tasks |-> << >>,
     calendar |-> DefaultCalendar]

(* The task of an empty span let through *)
TaskNewAllowsEmpty(id, date_start, date_end) ==
    IF date_start > date_end
    THEN [ok |-> FALSE, error |-> "InvalidTaskDuration"]
    ELSE [ok |-> TRUE, value |-> [id |-> id, date_start |-> date_start, date_end |-> date_end]]

TaskNew(id, date_start, date_end) ==
    IF date_start >= date_end
    THEN [ok |-> FALSE, error |-> "InvalidTaskDuration"]
    ELSE [ok |-> TRUE, value |-> [id |-> id, date_start |-> date_start, date_end |-> date_end]]

SingleProjectContainerNew == [project |-> << >>, calendars |-> << >>]

GetProject(container, id) ==
    IF container.project # << >>
    THEN IF container.project[1].id = id THEN <<container.project[1]>> ELSE << >>
    ELSE << >>

GetProjectMut(container, id) == GetProject(container, id)

Calendar(container, project_id) ==
    IF project_id \in DOMAIN container.calendars
    THEN <<container.calendars[project_id]>>
    ELSE << >>

InitProject ==
    /\ resources = << >>
    /\ allocations = << >>
    /\ nextId = 1
    /\ last = [op |-> "SingleProjectContainer::new", container |-> SingleProjectContainerNew]

(* The project put in place of the one the container holds *)
AddProjectReplacing(start, end) ==
    LET container == last.container
        project == ProjectNew(nextId, start, end)
    IN /\ nextId <= MaxUuids
       /\ nextId' = nextId + 1
       /\ last' = [op |-> "add_project", project_id |-> project.id, outcome |-> "Ok",
                   container |->
                       [project |-> <<project>>,
                        calendars |-> (project.id :> project.calendar)]]
       /\ UNCHANGED <<resources, allocations>>

(* The calendar stored also when the project is turned away *)
AddProjectKeepingCalendar(start, end) ==
    LET container == last.container
        project == ProjectNew(nextId, start, end)
        calendars == container.calendars @@ (project.id :> project.calendar)
    IN /\ nextId <= MaxUuids
       /\ nextId' = nextId + 1
       /\ IF container.project = << >>
          THEN last' = [op |-> "add_project", project_id |-> project.id, outcome |-> "Ok",
                        container |-> [project |-> <<project>>, calendars |-> calendars]]
          ELSE last' = [op |-> "add_project", project_id |-> project.id,
                        outcome |-> "It could be only one project in SingleContainer",
                        container |-> [container EXCEPT !.calendars = calendars]]
       /\ UNCHANGED <<resources, allocations>>

(* Project::new followed by add_project of the project it made *)
AddProject(start, end) ==
    LET container == last.container
        project == ProjectNew(nextId, start, end)
    IN /\ nextId <= MaxUuids
       /\ nextId' = nextId + 1
       /\ IF container.project = << >>
          THEN last' = [op |-> "add_project", project_id |-> project.id, outcome |-> "Ok",
                        container |->
                            [project |-> <<project>>,
                             calendars |-> container.calendars @@ (project.id :> project.calendar)]]
          ELSE last' = [op |-> "add_project", project_id |-> project.id,
                        outcome |-> "It could be only one project in SingleContainer",
                        container |-> container]
       /\ UNCHANGED <<resources, allocations>>

CreateTask(project_id, start, end) ==
    LET container == last.container
        found == GetProjectMut(container, project_id)
        call == [op |-> "create_task", project_id |-> project_id, start |-> start, end |-> end]
    IN /\ IF found = << >>
          THEN /\ last' = call @@ [outcome |-> "Project not found", container |-> container]
               /\ UNCHANGED nextId
          ELSE LET project == found[1]
               IN IF start < project.date_start \/ end > project.date_end
                  THEN /\ last' = call @@ [outcome |-> "Task dates must be within project dates",
                                           container |-> container]
                       /\ UNCHANGED nextId
                  ELSE LET task == TaskNew(nextId, start, end)
                       IN IF ~ task.ok
                          THEN /\ last' = call @@ [outcome |-> task.error, container |-> container]
                               /\ UNCHANGED nextId
                          ELSE /\ nextId <= MaxUuids
                               /\ nextId' = nextId + 1
                               /\ last' = call @@
                                    [outcome |-> "Ok", task |-> task.value,
                                     container |->
                                        [container EXCEPT !.project =
                                            <<[project EXCEPT !.tasks =
                                                  @ @@ (task.value.id :> task.value)]>>]]
       /\ UNCHANGED <<resources, allocations>>

NextProject ==
    \/ \E start \in Instants, end \in Instants : AddProject(start, end)
    \/ \E project_id \in Uuids, start \in Instants, end \in Instants :
          CreateTask(project_id, start, end)

SpecProject == InitProject /\ [][NextProject]_vars

----------------------------------------------------------------------------
(* The methods of TimeWindow, each called once on windows drawn at the    *)
(* start                                                                  *)

InitTimeWindow ==
    /\ resources = << >>
    /\ allocations = << >>
    /\ nextId = 1
    /\ last \in {[op |-> "input", a |-> a, b |-> b] : a \in TwWindows, b \in TwWindows}

CallTimeWindowNew ==
    /\ last.op = "input"
    /\ last' = [op |-> "TimeWindow::new",
                date_start |-> last.a.date_start, date_end |-> last.a.date_end,
                result |-> TimeWindowNew(last.a.date_start, last.a.date_end)]
    /\ UNCHANGED <<resources, allocations, nextId>>

CallOverlaps ==
    /\ last.op = "input"
    /\ last' = [op |-> "overlaps", a |-> last.a, b |-> last.b,
                result |-> Overlaps(last.a, last.b)]
    /\ UNCHANGED <<resources, allocations, nextId>>

CallContains(dt) ==
    /\ last.op = "input"
    /\ last' = [op |-> "contains", window |-> last.a, dt |-> dt,
                result |-> Contains(last.a, dt)]
    /\ UNCHANGED <<resources, allocations, nextId>>

CallSplitByDays ==
    /\ last.op = "input"
    /\ last' = [op |-> "split_by_days", window |-> last.a, result |-> SplitByDays(last.a)]
    /\ UNCHANGED <<resources, allocations, nextId>>

NextTimeWindow ==
    \/ CallTimeWindowNew
    \/ CallOverlaps
    \/ \E dt \in Moments : CallContains(dt)
    \/ CallSplitByDays

SpecTimeWindow == InitTimeWindow /\ [][NextTimeWindow]_vars

----------------------------------------------------------------------------
(* TaskService::allocate_resource, on a container whose pool was given    *)
(* its resources beforehand.  The failures are named after their          *)
(* messages: no project of that id, no task of that id in the project, no *)
(* calendar for the project.                                              *)

ServiceRates == {1, FullRate}

OptionalWindows == {<< >>} \cup {<<w>> : w \in Windows}

InitService ==
    /\ resources \in {<< >>, (1 :> NewResource(1))}
    /\ allocations = << >>
    /\ nextId = 1
    /\ last = [op |-> "SingleProjectContainer::new", container |-> SingleProjectContainerNew]

(* The window of the task used even when a window is given *)
AllocateResourceTaskWindow(project_id, task_id, resource_id, engagement, time_window) ==
    LET container == last.container
        call == [op |-> "allocate_resource", project_id |-> project_id, task_id |-> task_id,
                 resource_id |-> resource_id, engagement |-> engagement,
                 time_window |-> time_window, container |-> container]
        found == GetProject(container, project_id)
    IN /\ IF found = << >>
          THEN /\ last' = call @@ [outcome |-> "ProjectNotFound"]
               /\ UNCHANGED <<allocations, nextId>>
          ELSE IF task_id \notin DOMAIN found[1].tasks
          THEN /\ last' = call @@ [outcome |-> "TaskNotFound"]
               /\ UNCHANGED <<allocations, nextId>>
          ELSE LET task == found[1].tasks[task_id]
                   allocation_time_window == TimeWindowNew(task.date_start, task.date_end)
               IN IF ~ allocation_time_window.ok
                  THEN /\ last' = call @@ [outcome |-> allocation_time_window.error]
                       /\ UNCHANGED <<allocations, nextId>>
                  ELSE LET allocation_request ==
                               [resource_id |-> resource_id, task_id |-> task_id,
                                project_id |-> project_id, engagement_rate |-> engagement,
                                time_window |-> allocation_time_window.value]
                           project_calendar == Calendar(container, project_id)
                       IN IF project_calendar = << >>
                          THEN /\ last' = call @@ [outcome |-> "CalendarNotFound"]
                               /\ UNCHANGED <<allocations, nextId>>
                          ELSE LET outcome == CheckAllocationCorrect(
                                        resources, allocations, allocation_request,
                                        project_calendar[1])
                               IN /\ outcome = "Ok" => nextId <= MaxUuids
                                  /\ IF outcome = "Ok"
                                     THEN /\ allocations' = allocations @@
                                              (nextId :> ResourceAllocationNew(
                                                             nextId, allocation_request))
                                          /\ nextId' = nextId + 1
                                     ELSE UNCHANGED <<allocations, nextId>>
                                  /\ last' = call @@ [outcome |-> outcome]
       /\ UNCHANGED resources

AllocateResource(project_id, task_id, resource_id, engagement, time_window) ==
    LET container == last.container
        call == [op |-> "allocate_resource", project_id |-> project_id, task_id |-> task_id,
                 resource_id |-> resource_id, engagement |-> engagement,
                 time_window |-> time_window, container |-> container]
        found == GetProject(container, project_id)
    IN /\ IF found = << >>
          THEN /\ last' = call @@ [outcome |-> "ProjectNotFound"]
               /\ UNCHANGED <<allocations, nextId>>
          ELSE IF task_id \notin DOMAIN found[1].tasks
          THEN /\ last' = call @@ [outcome |-> "TaskNotFound"]
               /\ UNCHANGED <<allocations, nextId>>
          ELSE LET task == found[1].tasks[task_id]
                   allocation_time_window ==
                       IF time_window # << >>
                       THEN [ok |-> TRUE, value |-> time_window[1]]
                       ELSE TimeWindowNew(task.date_start, task.date_end)
               IN IF ~ allocation_time_window.ok
                  THEN /\ last' = call @@ [outcome |-> allocation_time_window.error]
                       /\ UNCHANGED <<allocations, nextId>>
                  ELSE LET allocation_request ==
                               [resource_id |-> resource_id, task_id |-> task_id,
                                project_id |-> project_id, engagement_rate |-> engagement,
                                time_window |-> allocation_time_window.value]
                           project_calendar == Calendar(container, project_id)
                       IN IF project_calendar = << >>
                          THEN /\ last' = call @@ [outcome |-> "CalendarNotFound"]
                               /\ UNCHANGED <<allocations, nextId>>
                          ELSE LET outcome == CheckAllocationCorrect(
                                        resources, allocations, allocation_request,
                                        project_calendar[1])
                               IN /\ outcome = "Ok" => nextId <= MaxUuids
                                  /\ IF outcome = "Ok"
                                     THEN /\ allocations' = allocations @@
                                              (nextId :> ResourceAllocationNew(
                                                             nextId, allocation_request))
                                          /\ nextId' = nextId + 1
                                     ELSE UNCHANGED <<allocations, nextId>>
                                  /\ last' = call @@ [outcome |-> outcome]
       /\ UNCHANGED resources

NextService ==
    \/ AddProject(0, MaxT)
    \/ \E project_id \in ProjectIds, start \in Instants, end \in Instants :
          CreateTask(project_id, start, end)
    \/ \E project_id \in ProjectIds, task_id \in Uuids, resource_id \in ResourceIds,
          engagement \in ServiceRates, time_window \in OptionalWindows :
          AllocateResource(project_id, task_id, resource_id, engagement, time_window)

SpecService == InitService /\ [][NextService]_vars

----------------------------------------------------------------------------
(* The loops of split_by_days and count_working_days, one iteration a     *)
(* step.  last holds the call, the loop's variables, the number of        *)
(* iterations made and where the call stands: in the loop, returned, or   *)
(* panicked.  NaiveDate has a last value as DateTime<Utc> has, the date   *)
(* of LastMoment, and `current += Duration::days(1)` panics past it.      *)

LastDate == DateNaive(LastMoment)

InitLoops ==
    /\ resources = << >>
    /\ allocations = << >>
    /\ nextId = 1
    /\ last \in {[op |-> "split_by_days", window |-> w, current |-> w.date_start,
                   result |-> << >>, iterations |-> 0, pc |-> "loop"] : w \in TwWindows}
              \cup {[op |-> "count_working_days", window |-> w,
                     current |-> DateNaive(w.date_start), count |-> 0,
                     iterations |-> 0, pc |-> "loop"] : w \in TwWindows}

SplitByDaysStep ==
    /\ last.op = "split_by_days"
    /\ last.pc = "loop"
    /\ IF last.current < last.window.date_end
       THEN IF last.current + TicksPerDay > LastMoment
            THEN last' = [last EXCEPT !.iterations = @ + 1, !.pc = "panicked"]
            ELSE LET next_day == ((last.current + TicksPerDay) \div TicksPerDay) * TicksPerDay
                     day_end == Min(next_day, last.window.date_end)
                     segment == TimeWindowNew(last.current, day_end)
                 IN IF ~ segment.ok
                    THEN last' = [last EXCEPT !.iterations = @ + 1, !.pc = "panicked"]
                    ELSE last' = [last EXCEPT !.result = Append(@, segment.value),
                                              !.current = next_day,
                                              !.iterations = @ + 1]
       ELSE last' = [last EXCEPT !.pc = "returned"]
    /\ UNCHANGED <<resources, allocations, nextId>>

CountWorkingDaysStep ==
    /\ last.op = "count_working_days"
    /\ last.pc = "loop"
    /\ IF last.current <= DateNaive(last.window.date_end)
       THEN LET count == IF IsWorkingDay(DefaultCalendar, last.current)
                         THEN last.count + 1 ELSE last.count
            IN IF last.current + 1 > LastDate
               THEN last' = [last EXCEPT !.count = count, !.iterations = @ + 1,
                                         !.pc = "panicked"]
               ELSE last' = [last EXCEPT !.count = count,
                                         !.current = @ + 1,
                                         !.iterations = @ + 1]
       ELSE last' = [last EXCEPT !.pc = "returned"]
    /\ UNCHANGED <<resources, allocations, nextId>>

NextLoops == SplitByDaysStep \/ CountWorkingDaysStep

(* A call that has started runs on: nothing else is scheduled *)
SpecLoops == InitLoops /\ [][NextLoops]_vars /\ WF_vars(NextLoops)

----------------------------------------------------------------------------
(* Vocabulary of the properties, stated without the operators above:      *)
(* two windows share an instant; a window has a working date; the load    *)
(* of a resource at an instant or over a window.                          *)

SharesInstant(a, b) ==
    \E t \in Instants : (a.date_start <= t /\ t < a.date_end)
                        /\ (b.date_start <= t /\ t < b.date_end)

HasWorkingDate(cal, w) ==
    \E d \in Dates :
        /\ w.date_start \div TicksPerDay <= d
        /\ d <= w.date_end \div TicksPerDay
        /\ (d + FirstWeekday) % 7 \in cal.working_days
        /\ d \notin cal.holidays

Blocked(resource, w) ==
    \E i \in DOMAIN resource.unavailable_periods :
        SharesInstant(resource.unavailable_periods[i].period, w)

RECURSIVE Total(_, _)
Total(allocs, ids) ==
    IF ids = {} THEN 0
    ELSE LET id == CHOOSE x \in ids : TRUE
         IN allocs[id].engagement_rate + Total(allocs, ids \ {id})

LoadAt(allocs, r, t) ==
    Total(allocs, {id \in DOMAIN allocs :
                     /\ allocs[id].resource_id = r
                     /\ allocs[id].time_window.date_start <= t
                     /\ t < allocs[id].time_window.date_end})

LoadOver(allocs, r, w) ==
    Total(allocs, {id \in DOMAIN allocs :
                     allocs[id].resource_id = r /\ SharesInstant(allocs[id].time_window, w)})

Held(allocs, r) == {id \in DOMAIN allocs : allocs[id].resource_id = r}

(* What allocate(request, cal) returns in the current state *)
Outcome(request, cal) == CheckAllocationCorrect(resources, allocations, request, cal)

----------------------------------------------------------------------------
(* C1: at every instant the engagement rates of the allocations of one    *)
(* resource whose window contains the instant sum to at most 1.0.         *)
C1_CapacityInvariant ==
    \A r \in ResourceIds, t \in Instants : LoadAt(allocations, r, t) <= FullRate

(* C2: every allocation held by the pool has an engagement rate within    *)
(* [0, 1]; a request outside that range is never committed.               *)
C2_RatesWithinUnitInterval ==
    \A id \in DOMAIN allocations :
        0 <= allocations[id].engagement_rate /\ allocations[id].engagement_rate <= FullRate

(* C3: for a request on a present and available resource, allocate        *)
(* succeeds if and only if the rates of the existing overlapping          *)
(* allocations of that resource plus the request's rate are at most 1.0,  *)
(* and fails with OverCommitted otherwise: every such request within      *)
(* capacity would be accepted, every other one would be rejected as       *)
(* OverCommitted, and an allocation just accepted was within capacity.    *)
C3_AcceptedIffWithinCapacity ==
    /\ \A request \in Requests, cal \in Calendars :
        (/\ request.resource_id \in DOMAIN resources
         /\ HasWorkingDate(cal, request.time_window)
         /\ ~ Blocked(resources[request.resource_id], request.time_window))
        => /\ Outcome(request, cal) \in {"Ok", "OverCommitted"}
           /\ LoadOver(allocations, request.resource_id, request.time_window)
                  + request.engagement_rate <= FullRate
              => Outcome(request, cal) = "Ok"
    /\ (last.op = "allocate" /\ last.outcome = "Ok")
        => LET new == allocations[nextId - 1]
               before == [i \in DOMAIN allocations \ {nextId - 1} |-> allocations[i]]
           IN LoadOver(before, new.resource_id, new.time_window) + new.engagement_rate
                <= FullRate

(* C4 as claimed: allocate fails with OverCommitted only when at some     *)
(* instant of the request's window the rates of the existing allocations  *)
(* of the resource containing that instant, plus the request's rate,      *)
(* exceed 1.0.                                                            *)
C4_OverCommittedOnlyIfInstantExceeds ==
    \A request \in Requests, cal \in Calendars :
        Outcome(request, cal) = "OverCommitted"
        => \E t \in Instants :
              /\ request.time_window.date_start <= t /\ t < request.time_window.date_end
              /\ LoadAt(allocations, request.resource_id, t) + request.engagement_rate
                   > FullRate

(* C4 as amended: allocate fails with OverCommitted only when the         *)
(* resource has existing allocations and the rates of those overlapping   *)
(* the request's window, plus the request's rate, exceed 1.0.             *)
C4_OverCommittedOnlyIfOverlapSumExceeds ==
    \A request \in Requests, cal \in Calendars :
        Outcome(request, cal) = "OverCommitted"
        => /\ Held(allocations, request.resource_id) # {}
           /\ LoadOver(allocations, request.resource_id, request.time_window)
                + request.engagement_rate > FullRate

(* A request was just rejected as OverCommitted on a window overlapping   *)
(* two allocations of its resource that share no instant with each other. *)
C4_Witness ==
    /\ last.op = "allocate" /\ last.outcome = "OverCommitted"
    /\ \E a, b \in Held(allocations, last.resource_id) :
          /\ a # b
          /\ ~ SharesInstant(allocations[a].time_window, allocations[b].time_window)
          /\ SharesInstant(allocations[a].time_window, last.time_window)
          /\ SharesInstant(allocations[b].time_window, last.time_window)

(* C5: a failed allocate leaves the resources map and the allocations     *)
(* map as they were; a successful allocate leaves the resources map as it *)
(* was and adds one entry to the allocations map.                         *)
C5_AllocateAllOrNothing ==
    [][last'.op = "allocate"
        => /\ resources' = resources
           /\ last'.outcome # "Ok" => allocations' = allocations
           /\ last'.outcome = "Ok"
              => /\ Cardinality(DOMAIN allocations') = Cardinality(DOMAIN allocations) + 1
                 /\ \A i \in DOMAIN allocations :
                       i \in DOMAIN allocations' /\ allocations'[i] = allocations[i]]_vars

(* An allocate has just failed on capacity in a pool that holds           *)
(* resources and allocations.                                             *)
C5_Witness ==
    /\ last.op = "allocate" /\ last.outcome = "OverCommitted"
    /\ DOMAIN resources # {} /\ DOMAIN allocations # {}

(* C6: allocate reports the first failing check in the order presence,    *)
(* availability, capacity: a request for an absent resource fails with    *)
(* ResourceNotFound and a request for a present, unavailable resource     *)
(* fails with ResourceUnavailable, whatever the capacity check would say. *)
C6_FirstFailingCheckWins ==
    \A request \in Requests, cal \in Calendars :
        /\ request.resource_id \notin DOMAIN resources
           => Outcome(request, cal) = "ResourceNotFound"
        /\ (/\ request.resource_id \in DOMAIN resources
            /\ ~ IsAvailable(resources[request.resource_id], request.time_window, cal))
           => Outcome(request, cal) = "ResourceUnavailable"

(* A request for a removed resource has just failed with ResourceNotFound *)
(* while the pool still holds an allocation of that resource, at full     *)
(* rate, overlapping the requested window.                                *)
C6_Witness ==
    /\ last.op = "allocate" /\ last.outcome = "ResourceNotFound"
    /\ last.resource_id \notin DOMAIN resources
    /\ \E a \in Held(allocations, last.resource_id) :
          /\ SharesInstant(allocations[a].time_window, last.time_window)
          /\ allocations[a].engagement_rate >= FullRate

(* C7: for a resource in the pool allocate fails with ResourceUnavailable *)
(* exactly when the requested window shares an instant with one of the    *)
(* resource's unavailable periods or has no working date; otherwise the   *)
(* request succeeds when capacity allows.                                 *)
C7_UnavailableExactly ==
    \A request \in Requests, cal \in Calendars :
        request.resource_id \in DOMAIN resources
        => LET unavailable ==
                   \/ Blocked(resources[request.resource_id], request.time_window)
                   \/ ~ HasWorkingDate(cal, request.time_window)
           IN /\ (Outcome(request, cal) = "ResourceUnavailable") <=> unavailable
              /\ (/\ ~ unavailable
                  /\ \/ Held(allocations, request.resource_id) = {}
                     \/ LoadOver(allocations, request.resource_id, request.time_window)
                          + request.engagement_rate <= FullRate)
                 => Outcome(request, cal) = "Ok"

(* A request has just failed with ResourceUnavailable on a window that    *)
(* starts before an unavailable period of its resource and runs into it.  *)
C7_Witness ==
    /\ last.op = "allocate" /\ last.outcome = "ResourceUnavailable"
    /\ last.resource_id \in DOMAIN resources
    /\ \E i \in DOMAIN resources[last.resource_id].unavailable_periods :
          LET p == resources[last.resource_id].unavailable_periods[i].period
          IN SharesInstant(p, last.time_window) /\ last.time_window.date_start < p.date_start

(* C8: is_available(period, calendar) is false when the period has no     *)
(* working date, false when an unavailable period of the resource, of any *)
(* exception type, shares an instant with it, and true otherwise; whether *)
(* allocate reports ResourceUnavailable does not depend on the            *)
(* allocations the pool holds.                                            *)
C8_IsAvailableDefinition ==
    /\ \A r \in DOMAIN resources, w \in Windows, cal \in Calendars :
          IsAvailable(resources[r], w, cal)
            = (HasWorkingDate(cal, w) /\ ~ Blocked(resources[r], w))
    /\ \A request \in Requests, cal \in Calendars :
          (Outcome(request, cal) = "ResourceUnavailable")
            <=> (CheckAllocationCorrect(resources, << >>, request, cal)
                   = "ResourceUnavailable")

(* A request has just failed with ResourceUnavailable because of an       *)
(* Overtime period, on a window with a working date, for a resource that  *)
(* holds allocations.                                                     *)
C8_Witness ==
    /\ last.op = "allocate" /\ last.outcome = "ResourceUnavailable"
    /\ last.resource_id \in DOMAIN resources
    /\ Held(allocations, last.resource_id) # {}
    /\ HasWorkingDate(DefaultCalendar, last.time_window)
    /\ \E i \in DOMAIN resources[last.resource_id].unavailable_periods :
          LET p == resources[last.resource_id].unavailable_periods[i]
          IN p.exception_type = "Overtime" /\ SharesInstant(p.period, last.time_window)

(* C9: deallocate of an id in the allocations map succeeds and removes    *)
(* exactly that entry; deallocate of any other id fails with              *)
(* AllocationNotFound and changes nothing; the resources map is untouched.*)
C9_DeallocateRemovesExactlyOne ==
    [][last'.op = "deallocate"
        => /\ resources' = resources
           /\ IF last'.allocation_id \in DOMAIN allocations
              THEN /\ last'.outcome = "Ok"
                   /\ DOMAIN allocations' = DOMAIN allocations \ {last'.allocation_id}
                   /\ \A i \in DOMAIN allocations' : allocations'[i] = allocations[i]
              ELSE /\ last'.outcome = "AllocationNotFound"
                   /\ allocations' = allocations]_vars

(* A deallocate has just succeeded and another allocation of the same     *)
(* resource is still in the pool.                                         *)
C9_Witness ==
    /\ last.op = "deallocate" /\ last.outcome = "Ok"
    /\ last.allocation_id \notin DOMAIN allocations
    /\ Held(allocations, last.removed.resource_id) # {}

(* C10: after a successful deallocate(a) every request gets the outcome   *)
(* it gets in the pool without a; a request that was rejected as          *)
(* OverCommitted and for which the overlapping allocations other than a   *)
(* leave room is accepted.                                                *)
C10_DeallocateFreesCapacity ==
    [][(last'.op = "deallocate" /\ last'.outcome = "Ok")
        => LET others == [i \in {j \in DOMAIN allocations : j # last'.allocation_id}
                            |-> allocations[i]]
           IN \A request \in Requests, cal \in Calendars :
                 /\ CheckAllocationCorrect(resources', allocations', request, cal)
                      = CheckAllocationCorrect(resources, others, request, cal)
                 /\ (/\ CheckAllocationCorrect(resources, allocations, request, cal)
                          = "OverCommitted"
                     /\ LoadOver(others, request.resource_id, request.time_window)
                          + request.engagement_rate <= FullRate)
                    => CheckAllocationCorrect(resources', allocations', request, cal) = "Ok"]_vars

(* A deallocate has just succeeded, another allocation of the resource    *)
(* remains, and some request that the pool rejected as OverCommitted with *)
(* the removed allocation in it is accepted now.                          *)
C10_Witness ==
    /\ last.op = "deallocate" /\ last.outcome = "Ok"
    /\ \E request \in Requests, cal \in Calendars :
          /\ Held(allocations, request.resource_id) # {}
          /\ CheckAllocationCorrect(resources,
                                    allocations @@ (last.allocation_id :> last.removed),
                                    request, cal) = "OverCommitted"
          /\ Outcome(request, cal) = "Ok"

(* C11 (atomic half): allocate and deallocate being single steps, no      *)
(* sequence of complete allocate and deallocate calls takes the pool from *)
(* a state that respects the capacity invariant to one that violates it.  *)
C11_AtomicCallsKeepCapacity ==
    [][(/\ last'.op \in {"allocate", "deallocate"}
        /\ \A r \in ResourceIds, t \in Instants : LoadAt(allocations, r, t) <= FullRate)
       => \A r \in ResourceIds, t \in Instants : LoadAt(allocations', r, t) <= FullRate]_vars

(* C12: remove_resource(id) succeeds and removes exactly the resource id  *)
(* when id is in the pool, and fails with ResourceNotFound, changing      *)
(* nothing, when it is not; a resource comes into the pool through        *)
(* add_resource only, so that a second remove_resource(id) fails.         *)
C12_RemoveResourceNotIdempotent ==
    [][/\ last'.op = "remove_resource"
          => /\ IF last'.resource_id \in DOMAIN resources
                THEN /\ last'.outcome = "Ok"
                     /\ DOMAIN resources' = DOMAIN resources \ {last'.resource_id}
                     /\ \A i \in DOMAIN resources' : resources'[i] = resources[i]
                ELSE /\ last'.outcome = "ResourceNotFound"
                     /\ resources' = resources
                     /\ allocations' = allocations
             /\ (last.op = "remove_resource" /\ last.resource_id = last'.resource_id)
                => last'.outcome = "ResourceNotFound"
       /\ last'.op # "add_resource" => DOMAIN resources' \subseteq DOMAIN resources]_vars

(* A remove_resource has just failed with ResourceNotFound for a resource *)
(* that was in the pool before: the pool still holds an allocation of it. *)
C12_Witness ==
    /\ last.op = "remove_resource" /\ last.outcome = "ResourceNotFound"
    /\ last.resource_id \notin DOMAIN resources
    /\ Held(allocations, last.resource_id) # {}

(* C13: the allocations map changes only by a successful allocate, which  *)
(* adds exactly one entry, or a successful deallocate, which removes      *)
(* exactly one entry; add_resource and remove_resource leave it as it     *)
(* was, the allocations of a removed resource included.                   *)
C13_AllocationsChangeOnlyByAllocateDeallocate ==
    [][/\ last'.op \in {"add_resource", "remove_resource", "add_unavailable_period"}
          => allocations' = allocations
       /\ allocations' # allocations
          => \/ /\ last'.op = "allocate" /\ last'.outcome = "Ok"
                /\ Cardinality(DOMAIN allocations' \ DOMAIN allocations) = 1
                /\ \A i \in DOMAIN allocations :
                      i \in DOMAIN allocations' /\ allocations'[i] = allocations[i]
             \/ /\ last'.op = "deallocate" /\ last'.outcome = "Ok"
                /\ Cardinality(DOMAIN allocations \ DOMAIN allocations') = 1
                /\ \A i \in DOMAIN allocations' :
                      i \in DOMAIN allocations /\ allocations'[i] = allocations[i]]_vars

(* A remove_resource has just succeeded and the pool still holds an       *)
(* allocation of the removed resource.                                    *)
C13_Witness ==
    /\ last.op = "remove_resource" /\ last.outcome = "Ok"
    /\ last.resource_id \notin DOMAIN resources
    /\ Held(allocations, last.resource_id) # {}

(* C14: a successful allocate adds exactly one allocation, under an id    *)
(* that no allocation of the pool had, carrying the request's             *)
(* resource_id, task_id, project_id, engagement_rate and time_window; the *)
(* allocations already held stay as they were and the resource holds one  *)
(* allocation more.                                                       *)
C14_AllocateAddsTheRequestUnderFreshId ==
    [][(last'.op = "allocate" /\ last'.outcome = "Ok")
       => /\ \E request \in TaskRequests : Allocate(request, DefaultCalendar)
          /\ \E id \in DOMAIN allocations' \ DOMAIN allocations :
                /\ DOMAIN allocations' = DOMAIN allocations \cup {id}
                /\ \A i \in DOMAIN allocations : allocations'[i] = allocations[i]
                /\ allocations'[id].id = id
                /\ \A request \in TaskRequests :
                      Allocate(request, DefaultCalendar)
                      => /\ allocations'[id].resource_id = request.resource_id
                         /\ allocations'[id].task_id = request.task_id
                         /\ allocations'[id].project_id = request.project_id
                         /\ allocations'[id].engagement_rate = request.engagement_rate
                         /\ allocations'[id].time_window = request.time_window
                /\ Cardinality(Held(allocations', last'.resource_id))
                     = Cardinality(Held(allocations, last'.resource_id)) + 1]_vars

(* An allocate has just succeeded for a task whose id is not its          *)
(* project's, on a resource that held an allocation of another task       *)
(* already.                                                               *)
C14_Witness ==
    /\ last.op = "allocate" /\ last.outcome = "Ok"
    /\ nextId - 1 \in DOMAIN allocations
    /\ allocations[nextId - 1].task_id # allocations[nextId - 1].project_id
    /\ \E other \in Held(allocations, last.resource_id) :
          /\ other # nextId - 1
          /\ allocations[other].task_id # allocations[nextId - 1].task_id

(* C15: TimeWindow::new(start, end) fails, with InvalidRange, exactly     *)
(* when start >= end, and returns the window of these two endpoints       *)
(* otherwise.                                                             *)
C15_NewFailsIffStartNotBeforeEnd ==
    last.op = "TimeWindow::new"
    => /\ (~ last.result.ok) <=> (last.date_start >= last.date_end)
       /\ ~ last.result.ok => last.result.error = "InvalidRange"
       /\ last.result.ok
          => /\ last.result.value.date_start = last.date_start
             /\ last.result.value.date_end = last.date_end

(* TimeWindow::new has just refused two equal endpoints.                  *)
C15_Witness ==
    /\ last.op = "TimeWindow::new"
    /\ last.date_start = last.date_end
    /\ ~ last.result.ok

(* C16: the time window of every allocation of the pool and of every      *)
(* unavailable period of every resource has its start strictly before     *)
(* its end.                                                               *)
C16_StoredWindowsWellFormed ==
    /\ \A id \in DOMAIN allocations :
          allocations[id].time_window.date_start < allocations[id].time_window.date_end
    /\ \A r \in DOMAIN resources :
          \A i \in DOMAIN resources[r].unavailable_periods :
              resources[r].unavailable_periods[i].period.date_start
                < resources[r].unavailable_periods[i].period.date_end

(* C17: overlaps is symmetric: a.overlaps(b) is b.overlaps(a), for all    *)
(* windows a and b.                                                       *)
C17_OverlapsSymmetric ==
    last.op = "overlaps" => last.result = Overlaps(last.b, last.a)

(* overlaps has just answered true for two windows neither of which       *)
(* holds the other.                                                       *)
C17_Witness ==
    /\ last.op = "overlaps" /\ last.result
    /\ last.a.date_start < last.b.date_start
    /\ last.b.date_start < last.a.date_end
    /\ last.a.date_end < last.b.date_end

(* C18: two windows that only touch do not overlap, and allocations of    *)
(* one resource on windows that touch do not contend: a request at rate   *)
(* 1.0 for a present, available resource whose allocations all end by the *)
(* request's start or start at its end or later is accepted.              *)
C18_TouchingWindowsDoNotContend ==
    /\ \A a \in Windows, b \in Windows :
          a.date_end = b.date_start => ~ Overlaps(a, b) /\ ~ Overlaps(b, a)
    /\ \A request \in Requests, cal \in Calendars :
          (/\ request.resource_id \in DOMAIN resources
           /\ IsAvailable(resources[request.resource_id], request.time_window, cal)
           /\ request.engagement_rate = FullRate
           /\ \A id \in Held(allocations, request.resource_id) :
                 \/ allocations[id].time_window.date_end <= request.time_window.date_start
                 \/ allocations[id].time_window.date_start >= request.time_window.date_end)
          => Outcome(request, cal) = "Ok"

(* A request has just been accepted on a window that starts where an      *)
(* allocation of the same resource ends, both at rate 1.0.                *)
C18_Witness ==
    /\ last.op = "allocate" /\ last.outcome = "Ok"
    /\ nextId - 1 \in DOMAIN allocations
    /\ allocations[nextId - 1].engagement_rate = FullRate
    /\ \E other \in Held(allocations, last.resource_id) :
          /\ allocations[other].engagement_rate = FullRate
          /\ allocations[other].time_window.date_end = last.time_window.date_start

(* C19: contains(t) holds exactly when start <= t < end, and two windows  *)
(* with start < end overlap exactly when some instant is contained in     *)
(* both.                                                                  *)
C19_ContainsAndOverlapsAgree ==
    /\ last.op = "contains"
       => last.result = (last.window.date_start <= last.dt /\ last.dt < last.window.date_end)
    /\ (/\ last.op = "overlaps"
        /\ last.a.date_start < last.a.date_end
        /\ last.b.date_start < last.b.date_end)
       => last.result = (\E t \in Moments : Contains(last.a, t) /\ Contains(last.b, t))

(* contains has just answered false for the end of a window with          *)
(* start < end.                                                           *)
C19_Witness ==
    /\ last.op = "contains"
    /\ last.window.date_start < last.window.date_end
    /\ last.dt = last.window.date_end
    /\ ~ last.result

(* C20: for a window with start < end split_by_days returns, without      *)
(* panicking, a non-empty sequence of windows with start < end; the first *)
(* starts at the window's start, each next one starts where the previous  *)
(* one ends, the last ends at the window's end, the ends of all but the   *)
(* last are midnights and no midnight lies inside a segment.              *)
C20_SplitByDaysPartitions ==
    (last.op = "split_by_days" /\ last.window.date_start < last.window.date_end)
    => LET segments == last.result.value
       IN /\ ~ last.result.panicked
          /\ Len(segments) >= 1
          /\ \A i \in 1..Len(segments) : segments[i].date_start < segments[i].date_end
          /\ segments[1].date_start = last.window.date_start
          /\ \A i \in 1..(Len(segments) - 1) :
                /\ segments[i + 1].date_start = segments[i].date_end
                /\ segments[i].date_end % TicksPerDay = 0
          /\ segments[Len(segments)].date_end = last.window.date_end
          /\ \A i \in 1..Len(segments), m \in Moments :
                m % TicksPerDay = 0
                => ~ (segments[i].date_start < m /\ m < segments[i].date_end)

(* C21: count_working_days(window) is the number of dates from the date   *)
(* of the window's start through the date of its end, both included,      *)
(* whose weekday is a working day and which are no holidays; the date of  *)
(* the end counts even when the window ends at that date's midnight.      *)
C21_CountWorkingDaysInclusive ==
    last.op = "count_working_days"
    => last.result =
         Cardinality({d \in CalDates :
                        /\ last.window.date_start \div TicksPerDay <= d
                        /\ d <= last.window.date_end \div TicksPerDay
                        /\ (d + FirstWeekday) % 7 \in last.calendar.working_days
                        /\ d \notin last.calendar.holidays})

(* count_working_days has just counted one day for a window with          *)
(* start < end that ends at the midnight opening a working day and        *)
(* starts on a date that is not one.                                      *)
C21_Witness ==
    /\ last.op = "count_working_days" /\ last.result = 1
    /\ last.window.date_start < last.window.date_end
    /\ last.window.date_end % TicksPerDay = 0
    /\ last.window.date_start \div TicksPerDay = (last.window.date_end \div TicksPerDay) - 1
    /\ (last.window.date_start \div TicksPerDay + FirstWeekday) % 7 \in {5, 6}

(* C22: with the default calendar, Monday to Friday and no holidays, a    *)
(* window that starts on a Saturday and ends on the Sunday after it has   *)
(* zero working days.                                                     *)
C22_WeekendHasNoWorkingDays ==
    (/\ last.op = "count_working_days"
     /\ last.calendar = DefaultCalendar
     /\ (last.window.date_start \div TicksPerDay + FirstWeekday) % 7 = 5
     /\ last.window.date_end \div TicksPerDay = last.window.date_start \div TicksPerDay + 1)
    => last.result = 0

(* count_working_days has just been called on the default calendar for a  *)
(* window from a Saturday into the Sunday after it.                       *)
C22_Witness ==
    /\ last.op = "count_working_days"
    /\ last.calendar = DefaultCalendar
    /\ last.window.date_start < last.window.date_end
    /\ (last.window.date_start \div TicksPerDay + FirstWeekday) % 7 = 5
    /\ last.window.date_end \div TicksPerDay = last.window.date_start \div TicksPerDay + 1

(* C23: add_holiday and remove_holiday never fail; adding a date that is  *)
(* a holiday and removing one that is not leave the calendar as it was;   *)
(* a second application changes nothing more; working_days and            *)
(* working_hours_per_day stay as they were.                               *)
C23_HolidayMutationIdempotent ==
    [][/\ last'.op = "add_holiday"
          => /\ last'.outcome = "Ok"
             /\ last'.calendar.holidays = last.calendar.holidays \cup {last'.date}
             /\ last'.date \in last.calendar.holidays => last'.calendar = last.calendar
             /\ AddHoliday(last'.calendar, last'.date) = last'.calendar
             /\ last'.calendar.working_days = last.calendar.working_days
             /\ last'.calendar.working_hours_per_day = last.calendar.working_hours_per_day
       /\ last'.op = "remove_holiday"
          => /\ last'.outcome = "Ok"
             /\ last'.calendar.holidays = last.calendar.holidays \ {last'.date}
             /\ last'.date \notin last.calendar.holidays => last'.calendar = last.calendar
             /\ RemoveHoliday(last'.calendar, last'.date) = last'.calendar
             /\ last'.calendar.working_days = last.calendar.working_days
             /\ last'.calendar.working_hours_per_day = last.calendar.working_hours_per_day]_vars

(* add_holiday has just been called for a date that was a holiday         *)
(* already, other holidays being set as well.                             *)
C23_Witness ==
    /\ last.op = "add_holiday"
    /\ last.date \in last.calendar.holidays
    /\ last.calendar.holidays # {last.date}

(* C24: rate conversion round-trips: a rate converted from one measure to *)
(* others and back to the first, along any cycle, is the rate the cycle   *)
(* started from.                                                          *)
C24_ConversionCyclesReturnTheRate ==
    (last.op = "convert" /\ last.measure = last.from_measure)
    => last.rate = last.from_rate

(* C25: a rate in a measure is the hourly rate times that measure's       *)
(* hours, 1 for Hourly, 8 for Daily and 8 * 22 = 176 for Monthly: every   *)
(* chain of conversions multiplies the rate by the hours of the measure   *)
(* reached over the hours of the measure it started in.                   *)
C25_ConversionFactorsCompose ==
    last.op = "convert"
    => LET hours == [m \in RateMeasures |->
                        CASE m = "Hourly" -> 1 [] m = "Daily" -> 8 [] m = "Monthly" -> 176]
       IN last.rate.n * last.from_rate.d * hours[last.from_measure]
            = last.from_rate.n * last.rate.d * hours[last.measure]

(* C26: Resource::new fails exactly when the rate is <= 0, and the rate   *)
(* of every resource it returns, and so of every resource in a pool, is   *)
(* > 0.                                                                   *)
C26_ResourcesHavePositiveRate ==
    /\ last.op = "Resource::new"
         => /\ ~ last.result.ok <=> LeZero(last.rate)
            /\ last.result.ok => GtZero(last.result.value.rate)
    /\ \A id \in DOMAIN resources : GtZero(resources[id].rate)

(* C27: get_resource_existing_allocations(r) returns the allocations of   *)
(* the pool whose resource_id is r, all of them and no other, and changes *)
(* nothing; for a resource without allocations the result is empty, be r  *)
(* in the resources map or not.                                           *)
C27_ExistingAllocationsExactlyThoseOfTheResource ==
    [][last'.op = "get_resource_existing_allocations"
         => /\ \A id \in AllocationIds :
                 id \in last'.result
                   <=> (id \in DOMAIN allocations
                          /\ allocations[id].resource_id = last'.resource_id)
            /\ (~ \E id \in DOMAIN allocations :
                    allocations[id].resource_id = last'.resource_id)
                 => last'.result = {}
            /\ resources' = resources
            /\ allocations' = allocations
            /\ nextId' = nextId]_vars

(* asked for a removed resource that still has an allocation, next to an  *)
(* allocation of the other resource                                       *)
C27_Witness ==
    /\ last.op = "get_resource_existing_allocations"
    /\ last.resource_id \notin DOMAIN resources
    /\ last.result # {}
    /\ last.result # DOMAIN allocations

(* C28: every task that create_task has stored in a project lies within   *)
(* the project's dates and has date_start < date_end; create_task fails   *)
(* and stores nothing when the project id is unknown, when the dates are  *)
(* outside the project's or when start >= end; otherwise it succeeds and  *)
(* adds one task, of the dates given, to that project.                    *)
C28_CreateTaskStoresOnlyTasksWithinTheProject ==
    [][last'.op = "create_task"
         => LET before == last.container
                after == last'.container
                unknown == \/ before.project = << >>
                           \/ before.project[1].id # last'.project_id
            IN /\ \A i \in DOMAIN after.project :
                     \A id \in DOMAIN after.project[i].tasks :
                        LET task == after.project[i].tasks[id]
                        IN /\ after.project[i].date_start <= task.date_start
                           /\ task.date_start < task.date_end
                           /\ task.date_end <= after.project[i].date_end
               /\ IF \/ unknown
                     \/ last'.start < before.project[1].date_start
                     \/ last'.end > before.project[1].date_end
                     \/ last'.start >= last'.end
                  THEN /\ last'.outcome # "Ok"
                       /\ after = before
                  ELSE /\ last'.outcome = "Ok"
                       /\ after.calendars = before.calendars
                       /\ after.project[1].id = before.project[1].id
                       /\ after.project[1].date_start = before.project[1].date_start
                       /\ after.project[1].date_end = before.project[1].date_end
                       /\ \E id \in DOMAIN after.project[1].tasks :
                             /\ id \notin DOMAIN before.project[1].tasks
                             /\ DOMAIN after.project[1].tasks
                                  = DOMAIN before.project[1].tasks \cup {id}
                             /\ after.project[1].tasks[id].date_start = last'.start
                             /\ after.project[1].tasks[id].date_end = last'.end
                             /\ \A other \in DOMAIN before.project[1].tasks :
                                   after.project[1].tasks[other]
                                     = before.project[1].tasks[other]]_vars

(* a second task stored in the project, the one as long as the project *)
C28_Witness ==
    /\ last.op = "create_task"
    /\ last.outcome = "Ok"
    /\ Cardinality(DOMAIN last.container.project[1].tasks) = 2
    /\ last.start = last.container.project[1].date_start
    /\ last.end = last.container.project[1].date_end

(* C29: a request on a resource that is in the pool, is available for the *)
(* window and has no allocation in the pool is accepted whatever its      *)
(* rate, and the allocation of an accepted request is in the pool, under  *)
(* the id drawn last.                                                     *)
C29_FirstAllocationSkipsCapacityCheck ==
    /\ \A request \in Requests, cal \in Calendars :
          (/\ request.resource_id \in DOMAIN resources
           /\ HasWorkingDate(cal, request.time_window)
           /\ ~ Blocked(resources[request.resource_id], request.time_window)
           /\ Held(allocations, request.resource_id) = {})
            => Outcome(request, cal) = "Ok"
    /\ (last.op = "allocate" /\ last.outcome = "Ok")
         => /\ nextId - 1 \in DOMAIN allocations
            /\ allocations[nextId - 1].resource_id = last.resource_id
            /\ allocations[nextId - 1].time_window = last.time_window

(* the first allocation of a resource accepted at a rate above 1.0 *)
C29_Witness ==
    /\ last.op = "allocate"
    /\ last.outcome = "Ok"
    /\ \E id \in DOMAIN allocations :
          /\ Held(allocations, last.resource_id) = {id}
          /\ allocations[id].engagement_rate > FullRate

(* C30: deallocate of an id that is in allocations succeeds and removes   *)
(* it, be the resource of the allocation in the pool or not; deallocate   *)
(* of an id that is not there fails with AllocationNotFound; and an id    *)
(* that was drawn and is no longer in allocations is not there after any  *)
(* step either, so no later allocate brings it back.                      *)
C30_DeallocatedIdStaysAbsent ==
    [][/\ last'.op = "deallocate"
            => IF last'.allocation_id \in DOMAIN allocations
               THEN /\ last'.outcome = "Ok"
                    /\ last'.allocation_id \notin DOMAIN allocations'
               ELSE /\ last'.outcome = "AllocationNotFound"
                    /\ allocations' = allocations
       /\ \A id \in 1..(nextId - 1) :
             id \notin DOMAIN allocations => id \notin DOMAIN allocations']_vars

(* the second deallocate of an id, made after a later allocate, the       *)
(* resource of the remaining allocation removed from the pool             *)
C30_Witness ==
    /\ last.op = "deallocate"
    /\ last.outcome = "AllocationNotFound"
    /\ last.allocation_id < nextId
    /\ \E id \in DOMAIN allocations :
          /\ id > last.allocation_id
          /\ allocations[id].resource_id \notin DOMAIN resources

C32_CalendarIffProject ==
    \A id \in Uuids :
        Calendar(last.container, id) # << >> <=> GetProject(last.container, id) # << >>

(* after a second add_project, turned away: the calendar of the stored    *)
(* project is there, none for the id of the other project                 *)
C32_Witness ==
    /\ last.op = "add_project"
    /\ last.outcome # "Ok"
    /\ Calendar(last.container, last.project_id) = << >>
    /\ \E id \in Uuids : Calendar(last.container, id) # << >>

(* C33: get_resource_utilization(r) is the sum of the engagement rates of *)
(* the allocations of r in the pool, whatever their windows: 0 when r has *)
(* none, greater by the request's rate after an accepted allocate on r,   *)
(* smaller by the rate of the allocation after a deallocate that removed  *)
(* one of r.                                                              *)
C33_UtilizationIsTheSumOfRates ==
    [][\A r \in ResourceIds :
          /\ GetResourceUtilization(allocations', r) = Total(allocations', Held(allocations', r))
          /\ Held(allocations', r) = {} => GetResourceUtilization(allocations', r) = 0
          /\ (last'.op = "allocate" /\ last'.outcome = "Ok" /\ last'.resource_id = r)
               => GetResourceUtilization(allocations', r)
                    = GetResourceUtilization(allocations, r)
                        + allocations'[nextId].engagement_rate
          /\ (last'.op = "deallocate" /\ last'.outcome = "Ok" /\ last'.removed.resource_id = r)
               => GetResourceUtilization(allocations', r)
                    = GetResourceUtilization(allocations, r) - last'.removed.engagement_rate]_vars

(* two allocations of one resource, on windows that share no instant, and *)
(* a utilization of 2.0                                                   *)
C33_Witness ==
    /\ last.op = "allocate"
    /\ last.outcome = "Ok"
    /\ GetResourceUtilization(allocations, last.resource_id) = 2 * FullRate
    /\ \A t \in Instants : LoadAt(allocations, last.resource_id, t) <= FullRate

AfterAllocate(allocs, id, request, cal) ==
    IF CheckAllocationCorrect(resources, allocs, request, cal) = "Ok"
    THEN allocs @@ (id :> ResourceAllocationNew(id, request))
    ELSE allocs

(* C36: what allocate answers for a request on resource r is what it      *)
(* answers in the pool holding r alone of the resources and the           *)
(* allocations of r alone; and two requests on different resources,       *)
(* made in either order, get the same two answers and leave the same      *)
(* pool (each request drawing the same id in both orders).                *)
C36_DifferentResourcesIndependent ==
    \A p \in Requests, cal \in Calendars :
        /\ Outcome(p, cal)
             = CheckAllocationCorrect(
                   [r \in DOMAIN resources \cap {p.resource_id} |-> resources[r]],
                   [id \in Held(allocations, p.resource_id) |-> allocations[id]],
                   p, cal)
        /\ \A q \in Requests :
              p.resource_id < q.resource_id
                => LET afterP == AfterAllocate(allocations, nextId, p, cal)
                       afterQ == AfterAllocate(allocations, nextId + 1, q, cal)
                   IN /\ CheckAllocationCorrect(resources, afterP, q, cal) = Outcome(q, cal)
                      /\ CheckAllocationCorrect(resources, afterQ, p, cal) = Outcome(p, cal)
                      /\ AfterAllocate(afterP, nextId + 1, q, cal)
                           = AfterAllocate(afterQ, nextId, p, cal)

(* both resources hold an allocation, each accepted while the other       *)
(* resource was at another load                                           *)
C36_Witness ==
    /\ last.op = "allocate"
    /\ last.outcome = "Ok"
    /\ \A r \in ResourceIds : Held(allocations, r) # {}

(* C37: remove_resource(r) leaves the allocations of r in the pool: right *)
(* after it get_resource_existing_allocations(r) returns them as before   *)
(* and every allocate on r answers ResourceNotFound; add_resource leaves  *)
(* them too, and right after it a request on r that is available is       *)
(* accepted exactly when its rate and the rates of the allocations of r   *)
(* sharing an instant with its window sum to at most 1.0; and every       *)
(* allocate accepted on a resource that has allocations respects that     *)
(* sum.                                                                   *)
C37_AllocationsOfRemovedResourceStayEffective ==
    [][/\ (last'.op = "remove_resource" /\ last'.outcome = "Ok")
            => LET r == last'.resource_id
               IN /\ allocations' = allocations
                  /\ GetResourceExistingAllocations(allocations', r) = Held(allocations, r)
                  /\ \A request \in Requests, cal \in Calendars :
                        request.resource_id = r
                          => CheckAllocationCorrect(resources', allocations', request, cal)
                               = "ResourceNotFound"
       /\ last'.op = "add_resource"
            => LET r == last'.resource_id
               IN /\ allocations' = allocations
                  /\ \A request \in Requests, cal \in Calendars :
                        (/\ request.resource_id = r
                         /\ Held(allocations, r) # {}
                         /\ HasWorkingDate(cal, request.time_window)
                         /\ ~ Blocked(resources'[r], request.time_window))
                          => (CheckAllocationCorrect(resources', allocations', request, cal) = "Ok"
                                <=> LoadOver(allocations, r, request.time_window)
                                      + request.engagement_rate <= FullRate)
       /\ (/\ last'.op = "allocate"
           /\ last'.outcome = "Ok"
           /\ Held(allocations, last'.resource_id) # {})
            => LoadOver(allocations, last'.resource_id, last'.time_window)
                 + allocations'[nextId].engagement_rate <= FullRate]_vars

(* allocate turned away with ResourceNotFound on a resource whose         *)
(* allocations are in the pool                                            *)
C37_Witness ==
    /\ last.op = "allocate"
    /\ last.outcome = "ResourceNotFound"
    /\ GetResourceExistingAllocations(allocations, last.resource_id) # {}

(* C38: add_resource always succeeds: the resource given is in the pool   *)
(* after it under its id, in place of the resource stored under that id   *)
(* if there was one, unavailable periods included; the other resources    *)
(* and the allocations are as before.                                     *)
C38_AddResourceInsertsOrReplaces ==
    [][last'.op = "add_resource"
         => LET r == last'.resource_id
            IN /\ last'.outcome = "Ok"
               /\ DOMAIN resources' = DOMAIN resources \cup {r}
               /\ resources'[r] = NewResource(r)
               /\ \A other \in DOMAIN resources \ {r} : resources'[other] = resources[other]
               /\ allocations' = allocations
               /\ nextId' = nextId]_vars

(* a resource added under an id the pool has allocations of, next to      *)
(* another resource with an unavailable period                            *)
C38_Witness ==
    /\ last.op = "add_resource"
    /\ last.outcome = "Ok"
    /\ Held(allocations, last.resource_id) # {}
    /\ \E other \in DOMAIN resources \ {last.resource_id} :
          resources[other].unavailable_periods # << >>

(* C39: add_unavailable_period on a resource of the pool appends the      *)
(* period to that resource, leaves the other resources and every          *)
(* allocation as they are, and changes what allocate answers only for     *)
(* the requests on that resource whose window shares an instant with the  *)
(* period, which are answered ResourceUnavailable from then on; on an id  *)
(* that is not in the pool it fails and changes nothing.                  *)
C39_UnavailablePeriodBlocksOnlyLaterRequests ==
    [][last'.op = "add_unavailable_period"
         => LET r == last'.resource_id
            IN /\ allocations' = allocations
               /\ nextId' = nextId
               /\ IF r \in DOMAIN resources
                  THEN LET old == resources[r].unavailable_periods
                           new == resources'[r].unavailable_periods
                       IN /\ last'.outcome = "Ok"
                          /\ DOMAIN resources' = DOMAIN resources
                          /\ \A other \in DOMAIN resources \ {r} :
                                resources'[other] = resources[other]
                          /\ Len(new) = Len(old) + 1
                          /\ \A i \in 1..Len(old) : new[i] = old[i]
                          /\ \A request \in Requests, cal \in Calendars :
                                IF /\ request.resource_id = r
                                   /\ SharesInstant(new[Len(new)].period, request.time_window)
                                THEN CheckAllocationCorrect(resources', allocations',
                                                            request, cal)
                                       = "ResourceUnavailable"
                                ELSE CheckAllocationCorrect(resources', allocations',
                                                            request, cal)
                                       = Outcome(request, cal)
                  ELSE /\ last'.outcome # "Ok"
                       /\ resources' = resources]_vars

(* a period added to a resource that holds an allocation over a window    *)
(* sharing an instant with the period                                     *)
C39_Witness ==
    /\ last.op = "add_unavailable_period"
    /\ last.outcome = "Ok"
    /\ \E id \in Held(allocations, last.resource_id) :
          Blocked(resources[last.resource_id], allocations[id].time_window)

(* C40: a request that allocate would accept is still accepted after any  *)
(* successful deallocate, the resources and the calendar being the same.  *)
C40_DeallocateKeepsRequestsAcceptable ==
    [][(last'.op = "deallocate" /\ last'.outcome = "Ok")
         => \A request \in Requests, cal \in Calendars :
               Outcome(request, cal) = "Ok"
                 => CheckAllocationCorrect(resources', allocations', request, cal) = "Ok"]_vars

====
